---- MODULE Spec2Model ----
(***************************************************************************)
(* BLAKE-256 / BLAKE-224 streaming hash (dchest/blake256).                 *)
(*                                                                         *)
(* Two revisions of the digest are modelled side by side:                  *)
(*   rev = 0   src/unnamed/part_000: uint64 bit counter t, byte count nx   *)
(*   rev = 1   src/unnamed/part_001: two-word counter t[0..1], bit count   *)
(*             buflen, update(data, datalen)                               *)
(* Definitions of the second revision carry the suffix _2.                 *)
(*                                                                         *)
(* Number representation.  TLC integers are 32-bit signed, so a uint32 is  *)
(* the pair <<high 16 bits, low 16 bits>> and a uint64 is four 16-bit      *)
(* limbs, most significant first.  All arithmetic wraps at the width of    *)
(* the Go type.                                                            *)
(*                                                                         *)
(* History.  The digest record carries one field that the Go struct does   *)
(* not have: blocks, the calls of the compression function made on that    *)
(* struct value so far, each with the 64-byte block, the counter words     *)
(* visible to the call and the nullt flag.  No operation reads it.         *)
(*                                                                         *)
(* Specifications.  Spec: sessions from a constructor on, with Write, Sum  *)
(* and Reset as whole calls.  SpecFin: the same calls on sessions that     *)
(* start mid-stream.  SpecBlock: single calls of _Block.  SpecRace: one    *)
(* Write and one Sum of revision 0 running step by step on one instance.   *)
(*                                                                         *)
(* Evaluation.  A value that is used more than once is bound with          *)
(*   Only({ body : w \in {value} })                                        *)
(* which TLC evaluates once; this is `w := value; body'.                   *)
(***************************************************************************)
EXTENDS Integers, Sequences, FiniteSets, TLC

Only(S) == CHOOSE y \in S : TRUE
At(t, i) == t[i + 1]
Min(a, b) == IF a < b THEN a ELSE b

(***************************************************************************)
(* uint32 and uint64 arithmetic                                            *)
(***************************************************************************)
Half == 0..65535
Word32 == Half \X Half

XorBit == << <<0, 1>>, <<1, 0>> >>
XOR4 ==
  [a \in 0..15 |-> [b \in 0..15 |->
      XorBit[(a % 2) + 1][(b % 2) + 1]
    + 2 * XorBit[((a \div 2) % 2) + 1][((b \div 2) % 2) + 1]
    + 4 * XorBit[((a \div 4) % 2) + 1][((b \div 4) % 2) + 1]
    + 8 * XorBit[(a \div 8) + 1][(b \div 8) + 1]]]
XOR8 ==
  [a \in 0..255 |-> [b \in 0..255 |->
      16 * XOR4[a \div 16][b \div 16] + XOR4[a % 16][b % 16]]]
Xor16(a, b) == 256 * XOR8[a \div 256][b \div 256] + XOR8[a % 256][b % 256]

\* p ^ q on uint32
Xor32[p \in Word32, q \in Word32] == <<Xor16(p[1], q[1]), Xor16(p[2], q[2])>>

\* p + q on uint32 (wraps)
Add32[p \in Word32, q \in Word32] ==
  <<(p[1] + q[1] + ((p[2] + q[2]) \div 65536)) % 65536, (p[2] + q[2]) % 65536>>

\* p - k on uint32 for a small constant 0 <= k < 65536 (wraps)
Sub32[p \in Word32, k \in Half] ==
  IF p[2] >= k THEN <<p[1], p[2] - k>>
  ELSE <<IF p[1] = 0 THEN 65535 ELSE p[1] - 1, p[2] + 65536 - k>>

\* p < q on uint32
Lt32(p, q) == p[1] < q[1] \/ (p[1] = q[1] /\ p[2] < q[2])

\* x<<(32-k) | x>>k on uint32
Rotr[w \in Word32, k \in 1..31] ==
  IF k = 16 THEN <<w[2], w[1]>>
  ELSE IF k < 16
    THEN <<(w[1] \div 2^k) + (w[2] % 2^k) * 2^(16 - k),
           (w[2] \div 2^k) + (w[1] % 2^k) * 2^(16 - k)>>
    ELSE <<(w[2] \div 2^(k - 16)) + (w[1] % 2^(k - 16)) * 2^(32 - k),
           (w[1] \div 2^(k - 16)) + (w[2] % 2^(k - 16)) * 2^(32 - k)>>

Zero32 == <<0, 0>>
Zero64 == <<0, 0, 0, 0>>
\* uint32(n), uint64(n) of a small non-negative int
U32(n) == <<n \div 65536, n % 65536>>
U64(n) == <<0, 0, n \div 65536, n % 65536>>

\* t + k on uint64, 0 <= k < 65536 (wraps)
Add64(t, k) ==
  LET s0 == t[4] + k
      s1 == t[3] + (s0 \div 65536)
      s2 == t[2] + (s1 \div 65536)
      s3 == t[1] + (s2 \div 65536)
  IN <<s3 % 65536, s2 % 65536, s1 % 65536, s0 % 65536>>

\* t - k on uint64, 0 <= k < 65536 (wraps)
Sub64(t, k) ==
  LET b0 == IF t[4] < k THEN 1 ELSE 0
      b1 == IF t[3] < b0 THEN 1 ELSE 0
      b2 == IF t[2] < b1 THEN 1 ELSE 0
      b3 == IF t[1] < b2 THEN 1 ELSE 0
  IN <<t[1] - b2 + 65536 * b3, t[2] - b1 + 65536 * b2,
       t[3] - b0 + 65536 * b1, t[4] - k + 65536 * b0>>

\* uint32(t) and uint32(t >> 32)
Lo32(t) == <<t[3], t[4]>>
Hi32(t) == <<t[1], t[2]>>

\* byte(v >> 24), byte(v >> 16), byte(v >> 8), byte(v)
u32to8(v) == <<v[1] \div 256, v[1] % 256, v[2] \div 256, v[2] % 256>>

\* uint32(s[0])<<24 | uint32(s[1])<<16 | uint32(s[2])<<8 | uint32(s[3]) at offset j
u8to32(p, j) == <<p[j + 1] * 256 + p[j + 2], p[j + 3] * 256 + p[j + 4]>>

(***************************************************************************)
(* Tables                                                                  *)
(***************************************************************************)
BlockSize == 64

\* Variant of sigma whose rows 10..13 repeat rows 1..4
sigma_Period9 ==
  << <<0, 1, 2, 3, 4, 5, 6, 7, 8, 9, 10, 11, 12, 13, 14, 15>>,
     <<14, 10, 4, 8, 9, 15, 13, 6, 1, 12, 0, 2, 11, 7, 5, 3>>,
     <<11, 8, 12, 0, 5, 2, 15, 13, 10, 14, 3, 6, 7, 1, 9, 4>>,
     <<7, 9, 3, 1, 13, 12, 11, 14, 2, 6, 5, 10, 4, 0, 15, 8>>,
     <<9, 0, 5, 7, 2, 4, 10, 15, 14, 1, 11, 12, 6, 8, 3, 13>>,
     <<2, 12, 6, 10, 0, 11, 8, 3, 4, 13, 7, 5, 15, 14, 1, 9>>,
     <<12, 5, 1, 15, 14, 13, 4, 10, 0, 7, 6, 3, 9, 2, 8, 11>>,
     <<13, 11, 7, 14, 12, 1, 3, 9, 5, 0, 15, 4, 8, 6, 2, 10>>,
     <<6, 15, 14, 9, 11, 3, 0, 8, 12, 2, 13, 7, 1, 4, 10, 5>>,
     <<10, 2, 8, 4, 7, 6, 1, 5, 15, 11, 9, 14, 3, 12, 13, 0>>,
     <<14, 10, 4, 8, 9, 15, 13, 6, 1, 12, 0, 2, 11, 7, 5, 3>>,
     <<11, 8, 12, 0, 5, 2, 15, 13, 10, 14, 3, 6, 7, 1, 9, 4>>,
     <<7, 9, 3, 1, 13, 12, 11, 14, 2, 6, 5, 10, 4, 0, 15, 8>>,
     <<9, 0, 5, 7, 2, 4, 10, 15, 14, 1, 11, 12, 6, 8, 3, 13>> >>

sigma ==
  << <<0, 1, 2, 3, 4, 5, 6, 7, 8, 9, 10, 11, 12, 13, 14, 15>>,
     <<14, 10, 4, 8, 9, 15, 13, 6, 1, 12, 0, 2, 11, 7, 5, 3>>,
     <<11, 8, 12, 0, 5, 2, 15, 13, 10, 14, 3, 6, 7, 1, 9, 4>>,
     <<7, 9, 3, 1, 13, 12, 11, 14, 2, 6, 5, 10, 4, 0, 15, 8>>,
     <<9, 0, 5, 7, 2, 4, 10, 15, 14, 1, 11, 12, 6, 8, 3, 13>>,
     <<2, 12, 6, 10, 0, 11, 8, 3, 4, 13, 7, 5, 15, 14, 1, 9>>,
     <<12, 5, 1, 15, 14, 13, 4, 10, 0, 7, 6, 3, 9, 2, 8, 11>>,
     <<13, 11, 7, 14, 12, 1, 3, 9, 5, 0, 15, 4, 8, 6, 2, 10>>,
     <<6, 15, 14, 9, 11, 3, 0, 8, 12, 2, 13, 7, 1, 4, 10, 5>>,
     <<10, 2, 8, 4, 7, 6, 1, 5, 15, 11, 9, 14, 3, 12, 13, 0>>,
     <<0, 1, 2, 3, 4, 5, 6, 7, 8, 9, 10, 11, 12, 13, 14, 15>>,
     <<14, 10, 4, 8, 9, 15, 13, 6, 1, 12, 0, 2, 11, 7, 5, 3>>,
     <<11, 8, 12, 0, 5, 2, 15, 13, 10, 14, 3, 6, 7, 1, 9, 4>>,
     <<7, 9, 3, 1, 13, 12, 11, 14, 2, 6, 5, 10, 4, 0, 15, 8>> >>

\* 0x243F6A88, 0x85A308D3, ... as <<high half, low half>>
cst ==
  << <<9279, 27272>>, <<34211, 2259>>, <<4889, 35374>>, <<880, 29508>>,
     <<41993, 14370>>, <<10655, 12752>>, <<2094, 64152>>, <<60494, 27785>>,
     <<17704, 8678>>, <<14544, 4983>>, <<48724, 26319>>, <<13545, 3180>>,
     <<49324, 10679>>, <<51580, 20701>>, <<16260, 54709>>, <<46407, 2327>> >>

iv256 ==
  << <<27145, 58983>>, <<47975, 44677>>, <<15470, 62322>>, <<42319, 62778>>,
     <<20750, 21119>>, <<39685, 26764>>, <<8067, 55723>>, <<23520, 52505>> >>

iv224 ==
  << <<49413, 40664>>, <<13948, 54535>>, <<12400, 56599>>, <<63246, 22841>>,
     <<65472, 2865>>, <<26712, 5393>>, <<25849, 36775>>, <<48890, 20388>> >>

(***************************************************************************)
(* The compression function: the body of _Block for one 64-byte block.     *)
(* v is the tuple v0..v15, m the 16 message words, si one row of sigma.    *)
(***************************************************************************)

\* m[i] = uint32(p[j])<<24 | ... for the 16 words of one block
Words(p) == [i \in 1..16 |-> u8to32(p, 4 * (i - 1))]

\* v8..v15 before the rounds; h, s the chain value and salt, tlo, thi the
\* two counter words, nullt the no-counter flag
InitV(h, s, tlo, thi, nullt) ==
  [i \in 1..16 |->
     IF i <= 8 THEN h[i]
     ELSE IF i <= 12 THEN Xor32[cst[i - 8], s[i - 8]]
     ELSE IF nullt THEN cst[i - 8]
     ELSE IF i <= 14 THEN Xor32[cst[i - 8], tlo]
     ELSE Xor32[cst[i - 8], thi]]

\* Variant of GStep whose last rotation is by 8 bits
GStep_Rot8(v, m, si, a, b, c, d, i, k) ==
  CASE k = 1 -> [v EXCEPT ![a + 1] =
                   Add32[v[a + 1], Add32[Xor32[At(m, At(si, i)), At(cst, At(si, i + 1))], v[b + 1]]]]
    [] k = 2 -> [v EXCEPT ![d + 1] = Rotr[Xor32[v[d + 1], v[a + 1]], 16]]
    [] k = 3 -> [v EXCEPT ![c + 1] = Add32[v[c + 1], v[d + 1]]]
    [] k = 4 -> [v EXCEPT ![b + 1] = Rotr[Xor32[v[b + 1], v[c + 1]], 12]]
    [] k = 5 -> [v EXCEPT ![a + 1] =
                   Add32[v[a + 1], Add32[Xor32[At(m, At(si, i + 1)), At(cst, At(si, i))], v[b + 1]]]]
    [] k = 6 -> [v EXCEPT ![d + 1] = Rotr[Xor32[v[d + 1], v[a + 1]], 8]]
    [] k = 7 -> [v EXCEPT ![c + 1] = Add32[v[c + 1], v[d + 1]]]
    [] k = 8 -> [v EXCEPT ![b + 1] = Rotr[Xor32[v[b + 1], v[c + 1]], 8]]

\* The k-th of the eight statements of one G on (va, vb, vc, vd) with the
\* sigma columns i and i+1
GStep(v, m, si, a, b, c, d, i, k) ==
  CASE k = 1 -> [v EXCEPT ![a + 1] =
                   Add32[v[a + 1], Add32[Xor32[At(m, At(si, i)), At(cst, At(si, i + 1))], v[b + 1]]]]
    [] k = 2 -> [v EXCEPT ![d + 1] = Rotr[Xor32[v[d + 1], v[a + 1]], 16]]
    [] k = 3 -> [v EXCEPT ![c + 1] = Add32[v[c + 1], v[d + 1]]]
    [] k = 4 -> [v EXCEPT ![b + 1] = Rotr[Xor32[v[b + 1], v[c + 1]], 12]]
    [] k = 5 -> [v EXCEPT ![a + 1] =
                   Add32[v[a + 1], Add32[Xor32[At(m, At(si, i + 1)), At(cst, At(si, i))], v[b + 1]]]]
    [] k = 6 -> [v EXCEPT ![d + 1] = Rotr[Xor32[v[d + 1], v[a + 1]], 8]]
    [] k = 7 -> [v EXCEPT ![c + 1] = Add32[v[c + 1], v[d + 1]]]
    [] k = 8 -> [v EXCEPT ![b + 1] = Rotr[Xor32[v[b + 1], v[c + 1]], 7]]

RECURSIVE G(_, _, _, _, _, _, _, _, _)
G(v, m, si, a, b, c, d, i, k) ==
  IF k > 8 THEN v
  ELSE Only({G(w, m, si, a, b, c, d, i, k + 1) : w \in {GStep(v, m, si, a, b, c, d, i, k)}})

\* The eight G's of one round in the order the unrolled code applies them:
\* <<a, b, c, d, sigma column>>
GOrder ==
  << <<0, 4, 8, 12, 0>>, <<1, 5, 9, 13, 2>>, <<2, 6, 10, 14, 4>>, <<3, 7, 11, 15, 6>>,
     <<3, 4, 9, 14, 14>>, <<2, 7, 8, 13, 12>>, <<0, 5, 10, 15, 8>>, <<1, 6, 11, 12, 10>> >>

RECURSIVE Round(_, _, _, _)
Round(v, m, si, j) ==
  IF j > 8 THEN v
  ELSE Only({Round(w, m, si, j + 1) :
              w \in {G(v, m, si, GOrder[j][1], GOrder[j][2], GOrder[j][3],
                       GOrder[j][4], GOrder[j][5], 1)}})

\* for i := 0; i < 14; i++
RECURSIVE Rounds(_, _, _)
Rounds(v, m, i) ==
  IF i >= 14 THEN v
  ELSE Only({Rounds(w, m, i + 1) : w \in {Round(v, m, At(sigma, i), 1)}})

\* h0 ^= v0 ^ v8 ^ s[0] ... h7 ^= v7 ^ v15 ^ s[3]
FeedForward(h, s, v) ==
  [i \in 1..8 |-> Xor32[Xor32[Xor32[h[i], v[i]], v[i + 8]], s[((i - 1) % 4) + 1]]]

\* Variant of Compress that ignores nullt and always mixes the counter in
Compress_CounterAlways(h, s, tlo, thi, nullt, p) ==
  Only({FeedForward(h, s, v) :
          v \in {Only({Rounds(v0, m, 0) :
                         v0 \in {InitV(h, s, tlo, thi, FALSE)},
                         m \in {Only({Words(q) : q \in {p}})}})}})

\* The new chain value after compressing the 64-byte block p
Compress(h, s, tlo, thi, nullt, p) ==
  Only({FeedForward(h, s, v) :
          v \in {Only({Rounds(v0, m, 0) :
                         v0 \in {InitV(h, s, tlo, thi, nullt)},
                         m \in {Only({Words(q) : q \in {p}})}})}})

(***************************************************************************)
(* Byte slices                                                             *)
(***************************************************************************)
Zeros(n) == [i \in 1..n |-> 0]
\* p[n:]
Drop(p, n) == SubSeq(p, n + 1, Len(p))
\* p[:n]
Take(p, n) == SubSeq(p, 1, n)
\* copy(dst[off:], src): the bytes of dst afterwards, and the count copied
Copy(dst, off, src) ==
  [i \in 1..Len(dst) |-> IF i > off /\ i <= off + Len(src) THEN src[i - off] ELSE dst[i]]
CopyN(dst, off, src) == Min(Len(dst) - off, Len(src))

(***************************************************************************)
(* Revision 0 (src/unnamed/part_000): digest with a uint64 counter         *)
(***************************************************************************)

\* One call of the compression function, for the history: the block, the
\* counter words the call can inject, and whether it injects them
Compressed(p, tlo, thi, nullt) == [p |-> p, tlo |-> tlo, thi |-> thi, nullt |-> nullt]

\* The zero value of the digest struct
ZeroDigest ==
  [hashSize |-> 0, h |-> [i \in 1..8 |-> Zero32], s |-> [i \in 1..4 |-> Zero32],
   t |-> Zero64, nullt |-> FALSE, x |-> Zeros(BlockSize), nx |-> 0,
   blocks |-> <<>>]

\* Variant of _Block that clears nullt once a block was compressed with it
RECURSIVE _Block_ClearNullt(_, _)
_Block_ClearNullt(d, p) ==
  IF Len(p) < BlockSize THEN [d |-> d, n |-> 0]
  ELSE Only({[d |-> r.d, n |-> r.n + BlockSize] :
         r \in {Only({_Block_ClearNullt(d1, Drop(p, BlockSize)) :
           d1 \in {Only({[d EXCEPT !.t = t1,
                                   !.h = Compress(d.h, d.s, Lo32(t1), Hi32(t1), d.nullt,
                                                  Take(p, BlockSize)),
                                   !.nullt = FALSE,
                                   !.blocks = Append(@, Compressed(Take(p, BlockSize),
                                                  Lo32(t1), Hi32(t1), d.nullt))] :
                     t1 \in {Add64(d.t, 512)}})}})}})

\* func _Block(d *digest, p []uint8) int: compresses every whole block of p;
\* the digest afterwards and the number of bytes consumed
RECURSIVE _Block(_, _)
_Block(d, p) ==
  IF Len(p) < BlockSize THEN [d |-> d, n |-> 0]
  ELSE Only({[d |-> r.d, n |-> r.n + BlockSize] :
         r \in {Only({_Block(d1, Drop(p, BlockSize)) :
           d1 \in {Only({[d EXCEPT !.t = t1,
                                   !.h = Compress(d.h, d.s, Lo32(t1), Hi32(t1), d.nullt,
                                                  Take(p, BlockSize)),
                                   !.blocks = Append(@, Compressed(Take(p, BlockSize),
                                                  Lo32(t1), Hi32(t1), d.nullt))] :
                     t1 \in {Add64(d.t, 512)}})}})}})

\* Variant of Reset that leaves the buffered count alone
Reset_KeepNx(d) ==
  [d EXCEPT !.h = IF d.hashSize = 224 THEN iv224 ELSE iv256,
            !.t = Zero64, !.nullt = FALSE]

\* func (d *digest) Reset()
Reset(d) ==
  [d EXCEPT !.h = IF d.hashSize = 224 THEN iv224 ELSE iv256,
            !.t = Zero64, !.nx = 0, !.nullt = FALSE]

\* func (d *digest) BlockSize() int
digestBlockSize(d) == BlockSize

\* func (d *digest) Size() int
Size(d) == d.hashSize \div 8

\* Variant of WriteTop that leaves out `p = p[n:]'
WriteTop_KeepP(d, p) ==
  IF d.nx > 0
    THEN Only({[d |-> IF d1.nx = BlockSize
                        THEN [(_Block(d1, d1.x)).d EXCEPT !.nx = 0]
                        ELSE d1,
                p |-> p] :
           d1 \in {[d EXCEPT !.x = Copy(d.x, d.nx, p),
                             !.nx = d.nx + CopyN(d.x, d.nx, p)]}})
    ELSE [d |-> d, p |-> p]

\* Write, the block `if d.nx > 0 { ... }': the digest and the rest of p
WriteTop(d, p) ==
  IF d.nx > 0
    THEN Only({[d |-> IF d1.nx = BlockSize
                        THEN [(_Block(d1, d1.x)).d EXCEPT !.nx = 0]
                        ELSE d1,
                p |-> Drop(p, Min(Len(p), BlockSize - d.nx))] :
           d1 \in {[d EXCEPT !.x = Copy(d.x, d.nx, p),
                             !.nx = d.nx + CopyN(d.x, d.nx, p)]}})
    ELSE [d |-> d, p |-> p]

\* Variant of WriteRest that leaves out `p = p[n:]' and buffers from the
\* start of p
WriteRest_KeepP(d, p) ==
  Only({IF Len(p) > 0
          THEN [r.d EXCEPT !.x = Copy(r.d.x, 0, p), !.nx = CopyN(r.d.x, 0, p)]
          ELSE r.d :
        r \in {_Block(d, p)}})

\* Write, from `n := _Block(d, p)' to the end
WriteRest(d, p) ==
  Only({IF Len(p) - r.n > 0
          THEN [r.d EXCEPT !.x = Copy(r.d.x, 0, Drop(p, r.n)),
                           !.nx = CopyN(r.d.x, 0, Drop(p, r.n))]
          ELSE r.d :
        r \in {_Block(d, p)}})

\* func (d *digest) Write(p []byte) (nn int, err error)
Write(d, p) ==
  [d |-> Only({WriteRest(a.d, a.p) : a \in {WriteTop(d, p)}}),
   nn |-> Len(p), err |-> "nil"]

\* pad := [64]byte{0x80}
pad == [i \in 1..BlockSize |-> IF i = 1 THEN 128 ELSE 0]

\* Variant of SumLen that leaves the buffered bytes out of the length
SumLen_CounterOnly(d) ==
  <<d.t[1] \div 256, d.t[1] % 256, d.t[2] \div 256, d.t[2] % 256,
    d.t[3] \div 256, d.t[3] % 256, d.t[4] \div 256, d.t[4] % 256>>

\* Sum: the eight bytes of l := d.t + nx<<3
SumLen(d) ==
  Only({<<l[1] \div 256, l[1] % 256, l[2] \div 256, l[2] % 256,
          l[3] \div 256, l[3] % 256, l[4] \div 256, l[4] % 256>> :
        l \in {Add64(d.t, d.nx * 8)}})

\* Variant of SumOne that writes 0x80 and then the domain byte
SumOne_TwoBytes(d) ==
  Only({(Write(d2, IF d.hashSize = 224 THEN <<0>> ELSE <<1>>)).d :
        d2 \in {Only({(Write(d1, <<128>>)).d :
          d1 \in {[d EXCEPT !.t = Sub64(@, 16)]}})}})

\* Sum, nx == 55: one padding byte
SumOne(d) ==
  Only({(Write(d1, IF d.hashSize = 224 THEN <<128>> ELSE <<129>>)).d :
        d1 \in {[d EXCEPT !.t = Sub64(@, 8)]}})

\* Variant of SumFill that sets nullt only when nothing was compressed before
SumFill_NulltIfEmpty(d) ==
  Only({(Write(d1, SubSeq(pad, 1, 55 - d.nx))).d :
        d1 \in {[d EXCEPT !.nullt = IF d.nx = 0 /\ d.t = Zero64 THEN TRUE ELSE @,
                          !.t = Sub64(@, 440 - d.nx * 8)]}})

\* Sum, nx < 55: enough space to fill the block
SumFill(d) ==
  Only({(Write(d1, SubSeq(pad, 1, 55 - d.nx))).d :
        d1 \in {[d EXCEPT !.nullt = IF d.nx = 0 THEN TRUE ELSE @,
                          !.t = Sub64(@, 440 - d.nx * 8)]}})

\* Variant of SumTwo that leaves out the second block of padding
SumTwo_PadOnce(d) ==
  Only({[d2 EXCEPT !.nullt = TRUE] :
        d2 \in {Only({(Write(d1, SubSeq(pad, 1, 64 - d.nx))).d :
          d1 \in {[d EXCEPT !.t = Sub64(@, 512 - d.nx * 8)]}})}})

\* Sum, nx > 55: two compressions
SumTwo(d) ==
  Only({[d4 EXCEPT !.nullt = TRUE] :
        d4 \in {Only({(Write(d3, SubSeq(pad, 2, 56))).d :
          d3 \in {Only({[d2 EXCEPT !.t = Sub64(@, 440)] :
            d2 \in {Only({(Write(d1, SubSeq(pad, 1, 64 - d.nx))).d :
              d1 \in {[d EXCEPT !.t = Sub64(@, 512 - d.nx * 8)]}})}})}})}})

\* Variant of SumDomain that writes the 256-bit domain byte for both widths
SumDomain_One(d) ==
  Only({[d1 EXCEPT !.t = Sub64(@, 8)] : d1 \in {(Write(d, <<1>>)).d}})

\* Sum, the domain byte after the padding of SumFill or SumTwo
SumDomain(d) ==
  Only({[d1 EXCEPT !.t = Sub64(@, 8)] :
        d1 \in {(Write(d, IF d.hashSize = 224 THEN <<0>> ELSE <<1>>)).d}})

\* Variant of SumPad that, with room to fill the block, stores the 0x80
\* byte and takes the rest of the buffer up to byte 55 to be zero
SumPad_SkipZeros(d) ==
  IF d.nx = 55 THEN SumOne(d)
  ELSE Only({SumDomain(d1) :
         d1 \in {IF d.nx < 55
                   THEN [d EXCEPT !.nullt = IF d.nx = 0 THEN TRUE ELSE @,
                                  !.t = Sub64(@, 440 - d.nx * 8),
                                  !.x = Copy(@, d.nx, <<128>>),
                                  !.nx = 55]
                   ELSE SumTwo(d)}})

\* Sum, from `if nx == 55' to the domain byte
SumPad(d) ==
  IF d.nx = 55 THEN SumOne(d)
  ELSE Only({SumDomain(d1) : d1 \in {IF d.nx < 55 THEN SumFill(d) ELSE SumTwo(d)}})

\* Sum: d.t -= 64; d.Write(len)
SumLength(d, len) ==
  Only({(Write(d1, len)).d : d1 \in {[d EXCEPT !.t = Sub64(@, 64)]}})

\* Variant of SumOut that serializes each word least significant byte first
SumOut_LittleEndian(d) ==
  [j \in 1..Size(d) |->
     IF (j - 1) \div 4 < d.hashSize \div 32
       THEN u32to8(d.h[((j - 1) \div 4) + 1])[4 - ((j - 1) % 4)]
       ELSE 0]

\* Sum: out, the first hashSize>>5 words of d.h, big-endian
SumOut(d) ==
  [j \in 1..Size(d) |->
     IF (j - 1) \div 4 < d.hashSize \div 32
       THEN u32to8(d.h[((j - 1) \div 4) + 1])[((j - 1) % 4) + 1]
       ELSE 0]

\* Sum: the private copy d := *d0 after all padding and the length
SumFinal(d0) ==
  Only({SumLength(d1, SumLen(d0)) : d1 \in {SumPad(d0)}})

\* Variant of Sum that pads the receiver itself instead of a copy
Sum_NoCopy(d0, in) ==
  Only({[d0 |-> d, d |-> d, out |-> in \o SumOut(d)] : d \in {SumFinal(d0)}})

\* func (d0 *digest) Sum(in []byte) []byte: the receiver afterwards, the
\* private copy d at the return, and the bytes returned
Sum(d0, in) ==
  Only({[d0 |-> d0, d |-> d, out |-> in \o SumOut(d)] : d \in {SumFinal(d0)}})

\* Variant of setSalt that accepts a longer salt and keeps its first 16 bytes
setSalt_AtLeast16(d, s) ==
  IF Len(s) < 16 THEN [panic |-> TRUE, d |-> d]
  ELSE [panic |-> FALSE,
        d |-> [d EXCEPT !.s = <<u8to32(s, 0), u8to32(s, 4), u8to32(s, 8), u8to32(s, 12)>>]]

\* func (d *digest) setSalt(s []byte)
setSalt(d, s) ==
  IF Len(s) # 16 THEN [panic |-> TRUE, d |-> d]
  ELSE [panic |-> FALSE,
        d |-> [d EXCEPT !.s = <<u8to32(s, 0), u8to32(s, 4), u8to32(s, 8), u8to32(s, 12)>>]]

\* func New() hash.Hash
New == [ZeroDigest EXCEPT !.hashSize = 256, !.h = iv256]
\* func NewSalt(salt []byte) hash.Hash
NewSalt(salt) == setSalt(New, salt)
\* func New224() hash.Hash
New224 == [ZeroDigest EXCEPT !.hashSize = 224, !.h = iv224]
\* func New224Salt(salt []byte) hash.Hash
New224Salt(salt) == setSalt(New224, salt)

(***************************************************************************)
(* Revision 1 (src/unnamed/part_001): digest with the counter in two       *)
(* uint32 words t[0] (low), t[1] (high) and the buffer length in bits      *)
(***************************************************************************)

\* The zero value of the digest struct
ZeroDigest_2 ==
  [hashSize |-> 0, h |-> [i \in 1..8 |-> Zero32], salt |-> [i \in 1..4 |-> Zero32],
   t |-> [i \in 0..1 |-> Zero32], nullt |-> FALSE, buf |-> Zeros(BlockSize), buflen |-> 0,
   blocks |-> <<>>]

\* func (d *digest) _Block(p []uint8): compresses the first 64 bytes of p
_Block_2(d, p) ==
  [d EXCEPT !.h = Compress(d.h, d.salt, d.t[0], d.t[1], d.nullt, Take(p, BlockSize)),
            !.blocks = Append(@, Compressed(Take(p, BlockSize), d.t[0], d.t[1], d.nullt))]

\* Variant of Bump without the carry into t[1]
Bump_NoCarry(t) == [i \in 0..1 |-> IF i = 0 THEN Add32[t[0], U32(512)] ELSE t[1]]

\* d.t[0] += 512; if d.t[0] == 0 { d.t[1]++ }
Bump(t) ==
  Only({[i \in 0..1 |-> IF i = 0 THEN lo
                        ELSE IF lo = Zero32 THEN Add32[t[1], U32(1)] ELSE t[1]] :
        lo \in {Add32[t[0], U32(512)]}})

\* update, the block `if left != 0 && int(datalen>>3)&0x3F >= fill { ... }':
\* the digest and the locals data, datalen, left afterwards
updateTop(d, data, datalen) ==
  IF d.buflen \div 8 # 0 /\ ((datalen \div 8) % 64) >= 64 - (d.buflen \div 8)
    THEN [d |-> Only({_Block_2(d1, d1.buf) :
                   d1 \in {[d EXCEPT !.buf = Copy(d.buf, d.buflen \div 8,
                                                  Take(data, 64 - (d.buflen \div 8))),
                                     !.t = Bump(d.t)]}}),
          data |-> Drop(data, 64 - (d.buflen \div 8)),
          datalen |-> datalen - (64 - (d.buflen \div 8)) * 8,
          left |-> 0]
    ELSE [d |-> d, data |-> data, datalen |-> datalen, left |-> d.buflen \div 8]

\* update, the loop `for datalen >= 512 { ... }'
RECURSIVE updateLoop(_)
updateLoop(u) ==
  IF u.datalen < 512 THEN u
  ELSE Only({updateLoop(u1) :
         u1 \in {[u EXCEPT !.d = Only({_Block_2(d1, Take(u.data, 64)) :
                                    d1 \in {[u.d EXCEPT !.t = Bump(u.d.t)]}}),
                           !.data = Drop(u.data, 64),
                           !.datalen = u.datalen - 512]}})

\* update, the final `if datalen > 0 { ... } else { ... }'
updateTail(u) ==
  IF u.datalen > 0
    THEN [u.d EXCEPT !.buf = Copy(u.d.buf, u.left, u.data),
                     !.buflen = u.left * 8 + u.datalen]
    ELSE [u.d EXCEPT !.buflen = 0]

\* func (d *digest) update(data []byte, datalen uint64)
update(d, data, datalen) ==
  Only({updateTail(u2) :
        u2 \in {Only({updateLoop(u1) : u1 \in {updateTop(d, data, datalen)}})}})

\* func (d *digest) Write(p []byte) (nn int, err error)
Write_2(d, p) == [d |-> update(d, p, Len(p) * 8), nn |-> Len(p), err |-> "nil"]

\* Variant of Reset that also zeroes the salt
Reset_ZeroSalt_2(d) ==
  [d EXCEPT !.h = IF d.hashSize = 224 THEN iv224 ELSE iv256,
            !.salt = [i \in 1..4 |-> Zero32],
            !.t = [i \in 0..1 |-> Zero32], !.nullt = FALSE, !.buflen = 0]

\* func (d *digest) Reset()
Reset_2(d) ==
  [d EXCEPT !.h = IF d.hashSize = 224 THEN iv224 ELSE iv256,
            !.t = [i \in 0..1 |-> Zero32], !.nullt = FALSE, !.buflen = 0]

\* Sum: msglen, the bytes of hi then lo
SumLen_2(d) ==
  Only({u32to8(IF Lt32(lo, U32(d.buflen)) THEN Add32[d.t[1], U32(1)] ELSE d.t[1])
          \o u32to8(lo) :
        lo \in {Add32[d.t[0], U32(d.buflen)]}})

\* Sum, buflen == 440: one padding byte
SumOne_2(d) ==
  Only({update(d1, IF d.hashSize = 224 THEN <<128>> ELSE <<129>>, 8) :
        d1 \in {[d EXCEPT !.t[0] = Sub32[@, 8]]}})

\* Variant of SumFill_2 that does not take the padding bits off the counter
SumFill_NoBackOff_2(d) ==
  Only({update(d1, pad, 440 - d.buflen) :
        d1 \in {[d EXCEPT !.nullt = IF d.buflen = 0 THEN TRUE ELSE @]}})

\* Sum, buflen < 440: enough space to fill the block
SumFill_2(d) ==
  Only({update(d1, pad, 440 - d.buflen) :
        d1 \in {[d EXCEPT !.nullt = IF d.buflen = 0 THEN TRUE ELSE @,
                          !.t[0] = Sub32[@, 440 - d.buflen]]}})

\* Sum, buflen > 440: two compressions
SumTwo_2(d) ==
  Only({[d4 EXCEPT !.nullt = TRUE] :
        d4 \in {Only({update(d3, Drop(pad, 1), 440) :
          d3 \in {Only({[d2 EXCEPT !.t[0] = Sub32[@, 440]] :
            d2 \in {Only({update(d1, pad, 512 - d.buflen) :
              d1 \in {[d EXCEPT !.t[0] = Sub32[@, 512 - d.buflen]]}})}})}})}})

\* Variant of SumDomain_2 that writes 0x01 for both widths
SumDomain_One_2(d) ==
  Only({[d1 EXCEPT !.t[0] = Sub32[@, 8]] : d1 \in {update(d, <<1>>, 8)}})

\* Sum, the domain byte after the padding of SumFill_2 or SumTwo_2
SumDomain_2(d) ==
  Only({[d1 EXCEPT !.t[0] = Sub32[@, 8]] :
        d1 \in {update(d, IF d.hashSize = 224 THEN <<0>> ELSE <<1>>, 8)}})

\* Sum, from `if d.buflen == 440' to the domain byte
SumPad_2(d) ==
  IF d.buflen = 440 THEN SumOne_2(d)
  ELSE Only({SumDomain_2(d1) :
             d1 \in {IF d.buflen < 440 THEN SumFill_2(d) ELSE SumTwo_2(d)}})

\* Variant of SumLength_2 that leaves out `d.t[0] -= 64'
SumLength_NoBackOff_2(d, msglen) == update(d, msglen, 64)

\* Sum: d.t[0] -= 64; d.update(msglen, 64)
SumLength_2(d, msglen) ==
  Only({update(d1, msglen, 64) : d1 \in {[d EXCEPT !.t[0] = Sub32[@, 64]]}})

\* Sum: the private copy d := *d0 after all padding and the length
SumFinal_2(d0) ==
  Only({SumLength_2(d1, SumLen_2(d0)) : d1 \in {SumPad_2(d0)}})

\* Variant of Sum that pads the receiver itself instead of a copy
Sum_NoCopy_2(d0, in) ==
  Only({[d0 |-> d, d |-> d, out |-> in \o SumOut(d)] : d \in {SumFinal_2(d0)}})

\* func (d0 *digest) Sum(in []byte) []byte: the receiver afterwards, the
\* private copy d at the return, and the bytes returned
Sum_2(d0, in) ==
  Only({[d0 |-> d0, d |-> d, out |-> in \o SumOut(d)] : d \in {SumFinal_2(d0)}})

\* func (d *digest) setSalt(s []byte)
setSalt_2(d, s) ==
  IF Len(s) # 16 THEN [panic |-> TRUE, d |-> d]
  ELSE [panic |-> FALSE,
        d |-> [d EXCEPT !.salt = <<u8to32(s, 0), u8to32(s, 4), u8to32(s, 8), u8to32(s, 12)>>]]

\* func newDigest(bitSize int) (d *digest)
newDigest(bitSize) == Reset_2([ZeroDigest_2 EXCEPT !.hashSize = bitSize])
\* func New() hash.Hash
New_2 == newDigest(256)
\* func New224() hash.Hash
New224_2 == newDigest(224)
\* func NewSalt(salt []byte) hash.Hash
NewSalt_2(salt) == setSalt_2(newDigest(256), salt)
\* func New224Salt(salt []byte) hash.Hash
New224Salt_2(salt) == setSalt_2(newDigest(224), salt)

(***************************************************************************)
(* The session: one instance, constructed once, then any sequence of       *)
(* Write, Sum and Reset calls                                              *)
(***************************************************************************)
VARIABLES
  rev,      \* the revision under test: 0 or 1
  pc,       \* "new": not constructed; "live": instance in use; "panic"
  d,        \* the digest struct of the instance
  ctor,     \* the constructor call: [hashSize, salted, salt]
  written,  \* the bytes passed to Write since construction or the last Reset
  chunks,   \* the lengths of those Writes, in order
  resumed,  \* a non-empty Write followed a Sum of a non-empty message
  calls,    \* the number of Write calls since construction
  ret,      \* the last call and what it returned
  base,     \* [pre, t]: whether the session starts mid-stream, and the counter
            \* value at construction, at the start or at the last Reset
  writer,   \* a Write call running step by step: its position and locals
  reader    \* a Sum call running step by step: the fields of *d0 copied so far

vars == <<rev, pc, d, ctor, written, chunks, resumed, calls, ret, base, writer, reader>>

\* no call running step by step
Idle == [pc |-> "idle"]

\* Bounds of the model
MaxWrites == 2
MaxBytes == 86
\* Writes made to a session that starts mid-stream
MaxFinWrites == 1

\* Inputs
BLAKE == <<66, 76, 65, 75, 69>>
FOX ==
  <<84, 104, 101, 32, 113, 117, 105, 99, 107, 32, 98, 114, 111, 119, 110, 32,
    102, 111, 120, 32, 106, 117, 109, 112, 115, 32, 111, 118, 101, 114, 32,
    116, 104, 101, 32, 108, 97, 122, 121, 32, 100, 111, 103>>
Chunks == {<<>>, BLAKE, FOX, Zeros(55), Zeros(64)}
Salt16 == <<49, 50, 51, 52, 53, 54, 55, 56, 57, 48, 49, 50, 51, 52, 53, 54>>
Salts == {Salt16, <<1, 2, 3, 4, 5, 6, 7, 8>>, Salt16 \o <<55>>}
SumIns == {<<>>}
\* Inputs of Sum for a session that starts mid-stream
FinSumIns == {<<>>, <<222, 173>>}
\* Inputs of Write for a session that starts mid-stream
FinChunks == {BLAKE, Zeros(64)}

Init ==
  /\ rev \in {0, 1}
  /\ pc = "new"
  /\ d = IF rev = 0 THEN ZeroDigest ELSE ZeroDigest_2
  /\ ctor = [hashSize |-> 0, salted |-> FALSE, salt |-> <<>>]
  /\ written = <<>>
  /\ chunks = <<>>
  /\ resumed = FALSE
  /\ calls = 0
  /\ ret = [op |-> "none"]
  /\ writer = Idle /\ reader = Idle
  /\ base = [pre |-> FALSE, t |-> Zero64]

\* A constructor without salt returned the instance r
Constructed(r, bits, name) ==
  /\ pc = "new"
  /\ pc' = "live"
  /\ d' = r
  /\ ctor' = [hashSize |-> bits, salted |-> FALSE, salt |-> <<>>]
  /\ ret' = [op |-> name, panic |-> FALSE]
  /\ UNCHANGED <<rev, written, chunks, resumed, calls, base, writer, reader>>

\* A constructor with salt returned r = [panic, d]: on a panic no instance
\* is returned
ConstructedSalt(r, bits, salt, name) ==
  /\ pc = "new"
  /\ pc' = IF r.panic THEN "panic" ELSE "live"
  /\ d' = IF r.panic THEN d ELSE r.d
  /\ ctor' = [hashSize |-> bits, salted |-> TRUE, salt |-> salt]
  /\ ret' = [op |-> name, panic |-> r.panic]
  /\ UNCHANGED <<rev, written, chunks, resumed, calls, base, writer, reader>>

CallNew == rev = 0 /\ Constructed(New, 256, "New")
CallNew224 == rev = 0 /\ Constructed(New224, 224, "New224")
CallNewSalt ==
  rev = 0 /\ \E salt \in Salts : ConstructedSalt(NewSalt(salt), 256, salt, "NewSalt")
CallNew224Salt ==
  rev = 0 /\ \E salt \in Salts : ConstructedSalt(New224Salt(salt), 224, salt, "New224Salt")

CallNew_2 == rev = 1 /\ Constructed(New_2, 256, "New")
CallNew224_2 == rev = 1 /\ Constructed(New224_2, 224, "New224")
CallNewSalt_2 ==
  rev = 1 /\ \E salt \in Salts : ConstructedSalt(NewSalt_2(salt), 256, salt, "NewSalt")
CallNew224Salt_2 ==
  rev = 1 /\ \E salt \in Salts : ConstructedSalt(New224Salt_2(salt), 224, salt, "New224Salt")

\* Write(p) returned r = [d, nn, err]
Wrote(r, p) ==
  /\ d' = r.d
  /\ ret' = [op |-> "Write", nn |-> r.nn, err |-> r.err]
  /\ written' = written \o p
  /\ chunks' = Append(chunks, Len(p))
  /\ resumed' = (resumed \/ (ret.op = "Sum" /\ Len(written) > 0 /\ Len(p) > 0))
  /\ calls' = calls + 1
  /\ UNCHANGED <<rev, pc, ctor, base, writer, reader>>

CanWrite(p) ==
  /\ pc = "live"
  /\ IF base.pre THEN calls < MaxFinWrites /\ p \in FinChunks
                 ELSE calls < MaxWrites /\ Len(written) + Len(p) <= MaxBytes

CallWrite ==
  rev = 0 /\ \E p \in Chunks : CanWrite(p) /\ \E r \in {Write(d, p)} : Wrote(r, p)
CallWrite_2 ==
  rev = 1 /\ \E p \in Chunks : CanWrite(p) /\ \E r \in {Write_2(d, p)} : Wrote(r, p)

\* Sum(in) returned r = [d0, d, out]; fin are the compressions Sum made on
\* its copy and h is the chain value it serialized
Summed(r, in) ==
  /\ d' = r.d0
  /\ ret' = [op |-> "Sum", in |-> in, out |-> r.out, h |-> r.d.h,
             fin |-> SubSeq(r.d.blocks, Len(d.blocks) + 1, Len(r.d.blocks))]
  /\ UNCHANGED <<rev, pc, ctor, written, chunks, resumed, calls, base, writer, reader>>

CallSum ==
  /\ rev = 0 /\ pc = "live"
  /\ \E in \in (IF base.pre THEN FinSumIns ELSE SumIns) :
       \E r \in {Sum(d, in)} : Summed(r, in)
CallSum_2 ==
  /\ rev = 1 /\ pc = "live"
  /\ \E in \in (IF base.pre THEN FinSumIns ELSE SumIns) :
       \E r \in {Sum_2(d, in)} : Summed(r, in)

\* Reset() left the instance as r
WasReset(r) ==
  /\ d' = [r EXCEPT !.blocks = <<>>]
  /\ ret' = [op |-> "Reset"]
  /\ written' = <<>>
  /\ chunks' = <<>>
  /\ resumed' = FALSE
  /\ base' = [base EXCEPT !.t = Zero64]
  /\ UNCHANGED <<rev, pc, ctor, calls, writer, reader>>

CallReset == rev = 0 /\ pc = "live" /\ WasReset(Reset(d))
CallReset_2 == rev = 1 /\ pc = "live" /\ WasReset(Reset_2(d))

Next ==
  \/ CallNew \/ CallNew224 \/ CallNewSalt \/ CallNew224Salt
  \/ CallNew_2 \/ CallNew224_2 \/ CallNewSalt_2 \/ CallNew224Salt_2
  \/ CallWrite \/ CallSum \/ CallReset
  \/ CallWrite_2 \/ CallSum_2 \/ CallReset_2

Spec == Init /\ [][Next]_vars

(***************************************************************************)
(* Sessions that start mid-stream.  Write, Sum and Reset are functions of  *)
(* the digest struct; here they are applied to structs whose counter is    *)
(* near or past a word boundary and whose buffer holds a given number of   *)
(* bytes, as after a long sequence of Writes.  The chain value after that  *)
(* many blocks is not computed: it is the IV, which neither the counter    *)
(* arithmetic nor the layout of the blocks reads.                          *)
(***************************************************************************)

\* 0, 2^32 - 512, 2^32 and 2^64 - 512 bits
FinCounters ==
  {Zero64, <<0, 0, 65535, 65024>>, <<0, 1, 0, 0>>, <<65535, 65535, 65535, 65024>>}
\* bytes in the buffer
FinBuffered == {0, 1, 55, 56, 63}
\* The buffered tail of the message, n bytes
TailBytes(n) == [i \in 1..n |-> 64 + i]

\* The struct of revision r and width bits after c bits were compressed and
\* TailBytes(n) was buffered
MidStream(r, bits, c, n) ==
  IF r = 0
    THEN [(IF bits = 224 THEN New224 ELSE New) EXCEPT
            !.t = c, !.x = Copy(@, 0, TailBytes(n)), !.nx = n]
    ELSE [(IF bits = 224 THEN New224_2 ELSE New_2) EXCEPT
            !.t = [i \in 0..1 |-> IF i = 0 THEN <<c[3], c[4]>> ELSE <<c[1], c[2]>>],
            !.buf = Copy(@, 0, TailBytes(n)), !.buflen = n * 8]

InitFin ==
  /\ rev \in {0, 1}
  /\ pc = "live"
  /\ \E bits \in {224, 256}, c \in FinCounters, n \in FinBuffered :
       /\ d = MidStream(rev, bits, c, n)
       /\ ctor = [hashSize |-> bits, salted |-> FALSE, salt |-> <<>>]
       /\ base = [pre |-> TRUE, t |-> c]
       /\ written = TailBytes(n)
  /\ chunks = <<>>
  /\ resumed = FALSE
  /\ calls = 0
  /\ ret = [op |-> "none"]
  /\ writer = Idle /\ reader = Idle

NextFin ==
  \/ CallWrite \/ CallSum \/ CallReset
  \/ CallWrite_2 \/ CallSum_2 \/ CallReset_2

SpecFin == InitFin /\ [][NextFin]_vars

(***************************************************************************)
(* Reference values for the claims                                         *)
(***************************************************************************)

\* A freshly constructed instance of the session's revision, width and salt
Fresh ==
  IF ctor.salted
    THEN IF ctor.hashSize = 224 THEN (New224Salt(ctor.salt)).d ELSE (NewSalt(ctor.salt)).d
    ELSE IF ctor.hashSize = 224 THEN New224 ELSE New
Fresh_2 ==
  IF ctor.salted
    THEN IF ctor.hashSize = 224 THEN (New224Salt_2(ctor.salt)).d ELSE (NewSalt_2(ctor.salt)).d
    ELSE IF ctor.hashSize = 224 THEN New224_2 ELSE New_2

\* What a fresh instance returns for Write(m); Sum(nil)
OneShot(m) ==
  Only({(Sum(w.d, <<>>)).out : w \in {Only({Write(f, m) : f \in {Fresh}})}})
OneShot_2(m) ==
  Only({(Sum_2(w.d, <<>>)).out : w \in {Only({Write_2(f, m) : f \in {Fresh_2}})}})

\* The salt words the constructor call asks for
CtorSalt ==
  IF ctor.salted
    THEN [i \in 1..4 |-> <<256 * ctor.salt[4 * i - 3] + ctor.salt[4 * i - 2],
                           256 * ctor.salt[4 * i - 1] + ctor.salt[4 * i]>>]
    ELSE [i \in 1..4 |-> Zero32]
CtorIV == IF ctor.hashSize = 224 THEN iv224 ELSE iv256

\* Fields of the session under either revision
SaltOf == IF rev = 0 THEN d.s ELSE d.salt
\* the 64-bit counter as four limbs
CounterOf == IF rev = 0 THEN d.t ELSE <<d.t[1][1], d.t[1][2], d.t[0][1], d.t[0][2]>>
\* the buffered amount in bits
BufBitsOf == IF rev = 0 THEN d.nx * 8 ELSE d.buflen

(***************************************************************************)
(* Claims                                                                  *)
(***************************************************************************)

\* C1 (as claimed): revision 1, streaming equivalence.  After Writes of
\* non-empty chunks c1..ck, Sum(nil) returns what a fresh instance returns
\* for one Write of c1 ++ ... ++ ck.
C1_StreamingEquivalence ==
  (rev = 1 /\ pc = "live" /\ \A i \in 1..Len(chunks) : chunks[i] > 0)
    => (Sum_2(d, <<>>)).out = OneShot_2(written)

\* C2: revision 0, Sum followed by more writing.  Every Sum returns the
\* digest of all the bytes written so far, whether or not a Sum was taken
\* in between: the first Sum that of m, the second that of m ++ m2.
C2_SumThenWrite ==
  (rev = 0 /\ pc = "live" /\ ret.op = "Sum") => ret.out = ret.in \o OneShot(written)

\* a second Sum, after Write(m); Sum; Write(m2) with m and m2 not empty
C2_Witness ==
  rev = 0 /\ pc = "live" /\ ret.op = "Sum" /\ resumed /\ Len(chunks) = 2

\* C3: Sum does not mutate the session: a Sum step leaves the whole digest
\* struct as it was, and a Sum right after a Sum returns the same bytes.
C3_SumDoesNotMutate ==
  [][ret'.op = "Sum" =>
       /\ d' = d
       /\ (ret.op = "Sum" /\ ret.in = ret'.in) => ret'.out = ret.out]_vars

\* a Sum was taken of a session with a non-zero counter and a partial block
C3_Witness ==
  pc = "live" /\ ret.op = "Sum" /\ BufBitsOf > 0 /\ CounterOf # Zero64

\* C4: Reset returns the session to the freshly constructed state: right
\* after Reset the chain is the IV of the width, counter and buffered count
\* are 0 and nullt is false; and Write(m); Sum after a Reset that followed
\* earlier Writes returns what a fresh instance returns for Write(m); Sum.
C4_Reset ==
  pc = "live" =>
    /\ ret.op = "Reset" =>
         d.h = CtorIV /\ CounterOf = Zero64 /\ BufBitsOf = 0 /\ d.nullt = FALSE
    /\ (ret.op = "Sum" /\ calls > Len(chunks) /\ Len(chunks) = 1) =>
         ret.out = ret.in \o (IF rev = 0 THEN OneShot(written) ELSE OneShot_2(written))

\* Write(m); Sum taken after a Reset that discarded earlier Writes
C4_Witness ==
  /\ pc = "live" /\ ret.op = "Sum"
  /\ calls > Len(chunks) /\ Len(chunks) = 1 /\ Len(written) > 0

\* C5: salt and output width are fixed at construction: in every state of
\* the session they are what the constructor call set.
C5_SaltAndWidthFixed ==
  pc = "live" => (SaltOf = CtorSalt /\ d.hashSize = ctor.hashSize)

\* a salted session right after a Reset that followed a Write
C5_Witness ==
  pc = "live" /\ ctor.salted /\ ret.op = "Reset" /\ calls > 0

\* C6: a salted constructor panics exactly when the salt is not 16 bytes
\* long; after the panic there is no instance, and an accepted salt is
\* stored whole.
C6_InvalidSaltLength ==
  (pc # "new" /\ ctor.salted) =>
    /\ (pc = "panic") <=> (Len(ctor.salt) # 16)
    /\ pc = "panic" =>
         /\ ret.panic
         /\ d = (IF rev = 0 THEN ZeroDigest ELSE ZeroDigest_2)
         /\ ~ENABLED Next
    /\ pc = "live" => SaltOf = CtorSalt

\* a constructor call with a salt of 17 bytes has panicked
C6_Witness ==
  pc = "panic" /\ ctor.salted /\ Len(ctor.salt) = 17

\* C7 (as claimed): revision 1, Write consumes all of its input: it returns
\* (len(p), nil), and counter + buffered bits = 8 * bytes written.
C7_WriteAccounting ==
  (rev = 1 /\ pc = "live") =>
    /\ ret.op = "Write" => (ret.nn = chunks[Len(chunks)] /\ ret.err = "nil")
    /\ Add64(CounterOf, BufBitsOf) = U64(8 * Len(written))

\* C8 (as claimed): revision 1, a zero-length Write returns (0, nil) and
\* leaves the digest struct unchanged.
C8_EmptyWriteNoop ==
  [][(rev = 1 /\ ret'.op = "Write" /\ ret'.nn = 0) =>
       (ret'.err = "nil" /\ d' = d)]_vars

\* Known answers of src/blake256_test.go
KAT256_Empty ==
  <<113, 111, 110, 134, 63, 116, 75, 154, 194, 44, 151, 236, 123, 118, 234, 95,
    89, 8, 188, 91, 47, 103, 198, 21, 16, 191, 196, 117, 19, 132, 234, 122>>
KAT256_BLAKE ==
  <<7, 102, 62, 0, 207, 150, 251, 193, 54, 207, 123, 30, 224, 153, 201, 83,
    70, 186, 57, 32, 137, 61, 24, 204, 136, 81, 242, 46, 226, 227, 106, 166>>
KAT256_FOX ==
  <<117, 118, 105, 142, 233, 202, 211, 1, 115, 8, 6, 120, 229, 150, 89, 22,
    173, 187, 17, 203, 82, 69, 211, 134, 191, 31, 253, 161, 203, 38, 201, 215>>
KAT256_Salt16_Empty ==
  <<86, 29, 109, 12, 250, 61, 49, 213, 238, 218, 242, 213, 117, 243, 148, 37,
    57, 176, 53, 34, 190, 252, 42, 17, 150, 186, 14, 81, 175, 137, 146, 168>>
KAT224_Empty ==
  <<125, 197, 49, 59, 28, 4, 81, 42, 23, 75, 214, 80, 59, 137, 96, 122,
    236, 190, 224, 144, 61, 64, 168, 165, 105, 201, 78, 237>>
KAT224_BLAKE ==
  <<207, 182, 132, 138, 221, 115, 225, 203, 71, 153, 76, 71, 101, 223, 51, 184,
    249, 115, 112, 39, 5, 163, 10, 113, 254, 71, 71, 163>>

\* Sum(nil) was just taken of a fresh instance after exactly one Write
OneWriteThenSum ==
  pc = "live" /\ ret.op = "Sum" /\ ret.in = <<>> /\ calls = 1 /\ Len(chunks) = 1

\* C9: BLAKE-256 known answers for "", "BLAKE", the quick brown fox, and
\* for "" under the salt "1234567890123456".
C9_KnownAnswers256 ==
  (OneWriteThenSum /\ ctor.hashSize = 256) =>
    /\ (~ctor.salted /\ written = <<>>) => ret.out = KAT256_Empty
    /\ (~ctor.salted /\ written = BLAKE) => ret.out = KAT256_BLAKE
    /\ (~ctor.salted /\ written = FOX) => ret.out = KAT256_FOX
    /\ (ctor.salted /\ ctor.salt = Salt16 /\ written = <<>>) => ret.out = KAT256_Salt16_Empty

\* the fox vector has been summed by New()
C9_Witness ==
  OneWriteThenSum /\ ctor.hashSize = 256 /\ ~ctor.salted /\ written = FOX

\* C10: BLAKE-224 known answers for "" and "BLAKE", 28 bytes each.
C10_KnownAnswers224 ==
  (OneWriteThenSum /\ ctor.hashSize = 224 /\ ~ctor.salted) =>
    /\ Len(ret.out) = 28
    /\ written = <<>> => ret.out = KAT224_Empty
    /\ written = BLAKE => ret.out = KAT224_BLAKE

\* "BLAKE" has been summed by New224()
C10_Witness ==
  OneWriteThenSum /\ ctor.hashSize = 224 /\ ~ctor.salted /\ written = BLAKE

\* The session state a Sum was taken of (Sum leaves it as it was)
\* bytes in the buffer
BufferedOf == IF rev = 0 THEN d.nx ELSE d.buflen \div 8
\* the buffered bytes
BufferOf == IF rev = 0 THEN SubSeq(d.x, 1, d.nx) ELSE SubSeq(d.buf, 1, d.buflen \div 8)
\* byte k (0 the most significant) of the 32-bit word w
ByteOf(w, k) ==
  IF k = 0 THEN w[1] \div 256 ELSE IF k = 1 THEN w[1] % 256
  ELSE IF k = 2 THEN w[2] \div 256 ELSE w[2] % 256
\* the blocks of a history, concatenated in the order they were compressed
Flat(bs) == [i \in 1..(BlockSize * Len(bs)) |->
               bs[((i - 1) \div BlockSize) + 1].p[((i - 1) % BlockSize) + 1]]

\* C11: output shape.  BlockSize() is 64 and Size() is width/8 (32 or 28);
\* Sum(in) returns in, unchanged, followed by exactly Size() bytes: the
\* first width/32 words of the finalized chain value, each big-endian, in
\* index order.
C11_OutputShape ==
  pc = "live" =>
    /\ digestBlockSize(d) = 64
    /\ Size(d) = ctor.hashSize \div 8
    /\ Size(d) = (IF ctor.hashSize = 256 THEN 32 ELSE 28)
    /\ ret.op = "Sum" =>
         /\ Len(ret.out) = Len(ret.in) + Size(d)
         /\ SubSeq(ret.out, 1, Len(ret.in)) = ret.in
         /\ \A j \in 0..(Size(d) - 1) :
              /\ j \div 4 < ctor.hashSize \div 32
              /\ ret.out[Len(ret.in) + j + 1] = ByteOf(ret.h[(j \div 4) + 1], j % 4)

\* Sum was given a non-empty in by a 224-bit instance
C11_Witness ==
  pc = "live" /\ ret.op = "Sum" /\ ret.in # <<>> /\ ctor.hashSize = 224

C13_BufferBound ==
  pc = "live" =>
    IF rev = 0
      THEN d.nx \in 0..(BlockSize - 1) /\ Len(d.x) = BlockSize
      ELSE d.buflen \in 0..511 /\ d.buflen % 8 = 0 /\ Len(d.buf) = BlockSize

\* a Write left 60 bytes in the buffer
C13_Witness ==
  pc = "live" /\ ret.op = "Write" /\ Len(chunks) = 2 /\ BufferedOf = 60

\* C14: session counter.  The 64-bit counter is the counter the session
\* started from (0 after construction or Reset) plus 512 for every block
\* compressed by Write since then, mod 2^64, with the carry from the low
\* into the high word; it is a multiple of 512.
C14_SessionCounter ==
  pc = "live" =>
    /\ CounterOf = Add64(base.t, 512 * Len(d.blocks))
    /\ CounterOf[4] % 512 = 0

\* revision 1 compressed a block at counter 2^32 - 512: t[0] wrapped to 0
\* and t[1] took the carry
C14_Witness ==
  /\ rev = 1 /\ pc = "live" /\ ret.op = "Write"
  /\ base.t = <<0, 0, 65535, 65024>> /\ Len(d.blocks) = 1
  /\ d.t[0] = Zero32 /\ d.t[1] = U32(1)

\* The true length in bits of the message a Sum was taken of
BitLength == Add64(CounterOf, BufBitsOf)
\* a 64-bit value as eight bytes, most significant first
Bytes64(l) ==
  <<l[1] \div 256, l[1] % 256, l[2] \div 256, l[2] % 256,
    l[3] \div 256, l[3] % 256, l[4] \div 256, l[4] % 256>>
\* the counter a compression could inject, as a 64-bit value
SeenCounter(c) == <<c.thi[1], c.thi[2], c.tlo[1], c.tlo[2]>>
\* the domain byte of the session's width
DomainByte == IF ctor.hashSize = 224 THEN 0 ELSE 1

\* C15: revision 1, counter back-adjustment in Sum.  Every compression of
\* Sum that injects the counter sees t[1] * 2^32 + t[0] = L, where L is the
\* session counter plus buflen: padding, domain and length bytes are not
\* counted, whatever the counter words are.
C15_BackAdjustment ==
  (rev = 1 /\ pc = "live" /\ ret.op = "Sum") =>
    \A i \in 1..Len(ret.fin) :
      ~ret.fin[i].nullt => SeenCounter(ret.fin[i]) = BitLength

\* Sum at t[1] = 1, t[0] = 0 with one byte buffered: the subtractions wrap
\* t[0] below zero and the compression still sees L = 2^32 + 8
C15_Witness ==
  /\ rev = 1 /\ pc = "live" /\ ret.op = "Sum"
  /\ d.t[1] = U32(1) /\ d.t[0] = Zero32 /\ d.buflen = 8
  /\ ~ret.fin[1].nullt /\ ret.fin[1].tlo = U32(8) /\ ret.fin[1].thi = U32(1)

\* C16: length field.  The last block Sum compresses ends with the 64-bit
\* big-endian L = counter + 8 * buffered bytes of the session state Sum
\* was called on, and writing these eight bytes triggers exactly one
\* compression, the last one.
C16_LengthField ==
  (pc = "live" /\ ret.op = "Sum") =>
    /\ Len(ret.fin) >= 1
    /\ SubSeq(ret.fin[Len(ret.fin)].p, 57, 64) = Bytes64(BitLength)
    /\ \E q \in {IF rev = 0 THEN SumPad(d) ELSE SumPad_2(d)} :
         /\ Len(q.blocks) = Len(d.blocks) + Len(ret.fin) - 1
         /\ (IF rev = 0 THEN q.nx ELSE q.buflen \div 8) = 56

\* Sum at counter 2^32 with one byte buffered: a length with both words set
C16_Witness ==
  pc = "live" /\ ret.op = "Sum" /\ CounterOf = <<0, 1, 0, 0>> /\ BufferedOf = 1

\* C17: with n bytes buffered Sum compresses once if n <= 55 and twice if
\* 56 <= n <= 63; of the two blocks the first is the buffered bytes, 0x80
\* and zeros, the second 55 zero bytes, the domain byte and the length.
C17_FinalCompressions ==
  (pc = "live" /\ ret.op = "Sum") =>
    /\ BufferedOf \in 0..63
    /\ Len(ret.fin) = (IF BufferedOf <= 55 THEN 1 ELSE 2)
    /\ BufferedOf >= 56 =>
         /\ ret.fin[1].p = BufferOf \o <<128>> \o Zeros(63 - BufferedOf)
         /\ ret.fin[2].p = Zeros(55) \o <<DomainByte>> \o Bytes64(BitLength)

\* Sum with 63 bytes buffered
C17_Witness ==
  pc = "live" /\ ret.op = "Sum" /\ BufferedOf = 63 /\ Len(ret.fin) = 2

\* C18: no-counter rule.  The last compression of Sum has nullt set exactly
\* when its block holds no message byte: n = 0, whatever was compressed
\* before, or n >= 56.  With 1 <= n <= 55 it injects the counter; of two
\* compressions the first injects the counter; the compressions made by
\* Write on the session all inject it.
C18_NoCounterRule ==
  pc = "live" =>
    /\ \A i \in 1..Len(d.blocks) : ~d.blocks[i].nullt
    /\ ~d.nullt
    /\ ret.op = "Sum" =>
         /\ ret.fin[Len(ret.fin)].nullt <=> (BufferedOf = 0 \/ BufferedOf >= 56)
         /\ Len(ret.fin) = 2 => ~ret.fin[1].nullt

\* Sum of a message whose length is a non-zero multiple of 64, after the
\* Write of a whole block
C18_Witness ==
  /\ pc = "live" /\ ret.op = "Sum" /\ BufferedOf = 0
  /\ Len(d.blocks) = 1 /\ CounterOf # Zero64 /\ ret.fin[1].nullt

\* C19 (as claimed): with exactly 55 bytes buffered Sum appends the single
\* padding byte 0x81, with the counter backed off by 8 bits, and no separate
\* domain byte before the 8-byte length.
C19_SinglePaddingByte81 ==
  (pc = "live" /\ ret.op = "Sum" /\ BufferedOf = 55) =>
    /\ Len(ret.fin) = 1
    /\ ret.fin[1].p = BufferOf \o <<129>> \o Bytes64(BitLength)
    /\ SeenCounter(ret.fin[1]) = BitLength

\* C19 (amended): with exactly 55 bytes buffered Sum appends a single
\* padding byte, 0x81 on a 256-bit instance and 0x80 on a 224-bit instance,
\* with the counter backed off by 8 bits, and no separate domain byte
\* before the 8-byte length.
C19_SinglePaddingByte ==
  (pc = "live" /\ ret.op = "Sum" /\ BufferedOf = 55) =>
    /\ Len(ret.fin) = 1
    /\ ret.fin[1].p = BufferOf \o <<128 + DomainByte>> \o Bytes64(BitLength)
    /\ SeenCounter(ret.fin[1]) = BitLength
    /\ ~ret.fin[1].nullt

\* Sum with 55 bytes buffered on a 224-bit instance
C19_Witness ==
  pc = "live" /\ ret.op = "Sum" /\ BufferedOf = 55 /\ ctor.hashSize = 224

\* C20: domain separation by width.  Byte 55 of the last block Sum
\* compresses has its low bit 1 on a 256-bit and 0 on a 224-bit instance;
\* unless n = 55 the byte is 0x01 or 0x00.
C20_DomainSeparation ==
  (pc = "live" /\ ret.op = "Sum") =>
    /\ ret.fin[Len(ret.fin)].p[56] % 2 = (IF ctor.hashSize = 256 THEN 1 ELSE 0)
    /\ BufferedOf # 55 =>
         ret.fin[Len(ret.fin)].p[56] = (IF ctor.hashSize = 256 THEN 1 ELSE 0)

\* Sum on a 224-bit instance with fewer than 55 bytes buffered
C20_Witness ==
  /\ pc = "live" /\ ret.op = "Sum" /\ ctor.hashSize = 224 /\ BufferedOf = 1
  /\ ret.fin[1].p[56] = 0

(***************************************************************************)
(* Calls of _Block.  _Block is a function of the digest struct and a       *)
(* slice; here it is called once on structs with a given chain value,      *)
(* salt, counter and nullt flag and three bytes in the buffer.             *)
(***************************************************************************)

\* chain values: the two IVs and a value with sixteen distinct half-words
BlockChains ==
  {iv256, iv224, [i \in 1..8 |-> <<4369 * i, 65535 - i>>]}
\* salts: none, and the salt words of Salt16
BlockSalts == {New.s, (NewSalt(Salt16)).d.s}
\* counters: 0, 2^32 - 512 and a value with four distinct limbs
BlockCounters == {Zero64, <<0, 0, 65535, 65024>>, <<1, 2, 3, 512>>}
Ramp(n) == [i \in 1..n |-> (7 * i) % 256]
\* slices: less than a block, one block (twice), two blocks
BlockSlices == {BLAKE, Zeros(64), Ramp(64), Ramp(128)}

InitBlock ==
  /\ rev \in {0, 1}
  /\ pc = "call"
  /\ \E h \in BlockChains, s \in BlockSalts, c \in BlockCounters, nullt \in BOOLEAN :
       /\ d = IF rev = 0
                THEN [MidStream(0, 256, c, 3) EXCEPT !.h = h, !.s = s, !.nullt = nullt]
                ELSE [MidStream(1, 256, c, 3) EXCEPT !.h = h, !.salt = s, !.nullt = nullt]
       /\ base = [pre |-> TRUE, t |-> c]
  /\ written \in {p \in BlockSlices : rev = 1 => Len(p) >= BlockSize}
  /\ ctor = [hashSize |-> 256, salted |-> FALSE, salt |-> <<>>]
  /\ chunks = <<>>
  /\ resumed = FALSE
  /\ calls = 0
  /\ ret = [op |-> "none"]
  /\ writer = Idle /\ reader = Idle

\* n := _Block(d, p) with p the slice held in written
Call_Block ==
  /\ rev = 0 /\ pc = "call"
  /\ \E r \in {_Block(d, written)} :
       /\ d' = r.d
       /\ ret' = [op |-> "_Block", n |-> r.n, before |-> d]
  /\ pc' = "returned"
  /\ UNCHANGED <<rev, ctor, written, chunks, resumed, calls, base, writer, reader>>

\* d._Block(p)
Call_Block_2 ==
  /\ rev = 1 /\ pc = "call"
  /\ d' = _Block_2(d, written)
  /\ ret' = [op |-> "_Block", n |-> BlockSize, before |-> d]
  /\ pc' = "returned"
  /\ UNCHANGED <<rev, ctor, written, chunks, resumed, calls, base, writer, reader>>

NextBlock == Call_Block \/ Call_Block_2

SpecBlock == InitBlock /\ [][NextBlock]_vars

\* C21 as stated: a call of _Block leaves the salt, the counter, the nullt
\* flag, the buffer and the buffered count as they were.
C21_BlockChangesOnlyH ==
  (pc = "returned" /\ rev = 0) =>
    /\ d.s = ret.before.s
    /\ d.t = ret.before.t
    /\ d.nullt = ret.before.nullt
    /\ d.x = ret.before.x
    /\ d.nx = ret.before.nx

\* C21 (amended): a call of _Block changes only the chain value h and the
\* counter t, which it advances by 512 for every block it compresses; the
\* width, the salt, the nullt flag, the buffer and the buffered count are
\* the same after the call as before it.  (The _Block of the revision
\* with the two-word counter leaves the counter alone as well.)
C21_BlockFrame ==
  pc = "returned" =>
    IF rev = 0
      THEN /\ d.t = Add64(ret.before.t, 512 * (ret.n \div BlockSize))
           /\ ret.n = BlockSize * (Len(written) \div BlockSize)
           /\ [d EXCEPT !.h = ret.before.h, !.t = ret.before.t,
                         !.blocks = ret.before.blocks] = ret.before
      ELSE [d EXCEPT !.h = ret.before.h, !.blocks = ret.before.blocks] = ret.before

\* _Block compressed two blocks with nullt set and changed the chain value
C21_Witness ==
  /\ pc = "returned" /\ rev = 0 /\ ret.n = 128
  /\ ret.before.nullt /\ d.h # ret.before.h

(***************************************************************************)
(* The compression function as specified, written from its definition:     *)
(* the G function on four words, applied to the columns and then to the    *)
(* diagonals in index order.                                               *)
(***************************************************************************)

\* a = a + w + b; d = rotr(d ^ a, r1); c = c + d; b = rotr(b ^ c, r2)
\* on q = <<a, b, c, d>>
RefHalfG(q, w, r1, r2) ==
  Only({Only({Only({Only({<<a1, b1, c1, d1>> :
      b1 \in {Rotr[Xor32[q[2], c1], r2]}}) :
      c1 \in {Add32[q[3], d1]}}) :
      d1 \in {Rotr[Xor32[q[4], a1], r1]}}) :
      a1 \in {Add32[Add32[q[1], w], q[2]]}})

\* G on the words ia, ib, ic, id of v (numbered from 0) with the message
\* and constant indices x and y
RefG(v, m, x, y, ia, ib, ic, id) ==
  Only({[k \in 1..16 |-> IF k = ia + 1 THEN q2[1] ELSE IF k = ib + 1 THEN q2[2]
                         ELSE IF k = ic + 1 THEN q2[3] ELSE IF k = id + 1 THEN q2[4]
                         ELSE v[k]] :
     q2 \in {Only({RefHalfG(q1, Xor32[m[y + 1], cst[x + 1]], 8, 7) :
       q1 \in {Only({RefHalfG(q0, Xor32[m[x + 1], cst[y + 1]], 16, 12) :
         q0 \in {<<v[ia + 1], v[ib + 1], v[ic + 1], v[id + 1]>>}})}})}})

\* G number i of round r: i = 0..3 the columns, i = 4..7 the diagonals
RefGi(v, m, r, i) ==
  IF i < 4
    THEN RefG(v, m, sigma[r + 1][2 * i + 1], sigma[r + 1][2 * i + 2],
              i, i + 4, i + 8, i + 12)
    ELSE RefG(v, m, sigma[r + 1][2 * i + 1], sigma[r + 1][2 * i + 2],
              i - 4, 4 + ((i - 3) % 4), 8 + ((i - 2) % 4), 12 + ((i - 1) % 4))

\* The G's i..7 of round r
RECURSIVE RefRound(_, _, _, _)
RefRound(v, m, r, i) ==
  IF i > 7 THEN v
  ELSE Only({RefRound(w, m, r, i + 1) : w \in {RefGi(v, m, r, i)}})

\* The rounds r..13
RECURSIVE RefRounds(_, _, _)
RefRounds(v, m, r) ==
  IF r >= 14 THEN v
  ELSE Only({RefRounds(w, m, r + 1) : w \in {RefRound(v, m, r, 0)}})

\* The new chain value for the chain h, the salt s, the counter words t0
\* (low) and t1 (high), the flag nullt and the 64 bytes p
RefCompress(h, s, t0, t1, nullt, p) ==
  Only({[i \in 1..8 |-> Xor32[Xor32[Xor32[h[i], v[i]], v[i + 8]], s[((i - 1) % 4) + 1]]] :
    v \in {Only({RefRounds(v0, m, 0) :
      m \in {[i \in 1..16 |-> <<256 * p[4 * i - 3] + p[4 * i - 2],
                                 256 * p[4 * i - 1] + p[4 * i]>>]},
      v0 \in {[i \in 1..16 |->
                IF i <= 8 THEN h[i]
                ELSE IF i <= 12 THEN Xor32[s[i - 8], cst[i - 8]]
                ELSE IF nullt THEN cst[i - 8]
                ELSE Xor32[cst[i - 8], IF i <= 14 THEN t0 ELSE t1]]}})}})

\* The chain value after the whole blocks of p from block k on, with the
\* counter c before the call advanced by 512 for every block
RECURSIVE RefChain(_, _, _, _, _, _)
RefChain(h, s, c, nullt, p, k) ==
  IF 64 * k > Len(p) THEN h
  ELSE Only({RefChain(h1, s, c, nullt, p, k + 1) :
         h1 \in {Only({RefCompress(h, s, Lo32(t), Hi32(t), nullt,
                                   SubSeq(p, 64 * k - 63, 64 * k)) :
                  t \in {Add64(c, 512 * k)}})}})

\* C22: the chain value _Block leaves is the specified compression of each
\* whole block of the slice: 16 big-endian words, v from the chain, the
\* salt, the constants and (unless nullt) the counter, 14 rounds of four
\* column G's then four diagonal G's, and the feed-forward.  The code
\* applies the diagonal G's in another order and gets the same value.
C22_BlockIsCompression ==
  pc = "returned" =>
    d.h = IF rev = 0
            THEN RefChain(ret.before.h, ret.before.s, ret.before.t,
                          ret.before.nullt, written, 1)
            ELSE RefCompress(ret.before.h, ret.before.salt, ret.before.t[0],
                             ret.before.t[1], ret.before.nullt, Take(written, 64))

\* _Block compressed a block of distinct bytes with the counter mixed in,
\* its low and high words different
C22_Witness ==
  /\ pc = "returned" /\ ~ret.before.nullt /\ written = Ramp(64)
  /\ base.t = <<1, 2, 3, 512>> /\ d.h # ret.before.h

\* The struct of revision 1 holds what the struct d of revision 0 holds:
\* t = t[1] * 2^32 + t[0], 8 * nx = buflen, the same buffered bytes, and
\* the same compressions made so far
Related(o) ==
  /\ d.hashSize = o.hashSize /\ d.h = o.h /\ d.s = o.salt /\ d.nullt = o.nullt
  /\ d.t = <<o.t[1][1], o.t[1][2], o.t[0][1], o.t[0][2]>>
  /\ 8 * d.nx = o.buflen
  /\ SubSeq(d.x, 1, d.nx) = SubSeq(o.buf, 1, d.nx)
  /\ d.blocks = o.blocks

\* The compressions a and b have the same blocks and nullt flags, and the
\* same counter wherever it is mixed in
SameInputs(a, b) ==
  /\ Len(a) = Len(b)
  /\ \A i \in 1..Len(a) :
       /\ a[i].p = b[i].p /\ a[i].nullt = b[i].nullt
       /\ ~a[i].nullt => SeenCounter(a[i]) = SeenCounter(b[i])

\* a fresh instance of revision 0 after a single Write
SingleWrite == rev = 0 /\ pc = "live" /\ calls = 1 /\ Len(chunks) = 1

\* C23 as stated: after a single Write(m) on fresh instances the two
\* revisions are in related states, and Sum(nil) makes the same
\* compressions in both, with the same counter value at each, and returns
\* the same digest.
C23_SameCounterAtEveryCompression ==
  SingleWrite =>
    \E w \in {Write_2(Fresh_2, written)} :
      /\ Related(w.d)
      /\ ret.op = "Sum" =>
           \E r \in {Sum_2(w.d, <<>>)} :
             /\ ret.out = r.out
             /\ ret.fin = SubSeq(r.d.blocks, Len(w.d.blocks) + 1, Len(r.d.blocks))

\* C23 (amended): after a single Write(m) on fresh instances the two
\* revisions are in related states, and Sum(nil) compresses the same
\* blocks with the same nullt flags in both, with the same 64-bit counter
\* value at every compression that mixes the counter in, and returns the
\* same digest.
C23_RevisionEquivalence ==
  SingleWrite =>
    \E w \in {Write_2(Fresh_2, written)} :
      /\ Related(w.d)
      /\ ret.op = "Sum" =>
           \E r \in {Sum_2(w.d, <<>>)} :
             /\ ret.out = r.out
             /\ SameInputs(ret.fin,
                           SubSeq(r.d.blocks, Len(w.d.blocks) + 1, Len(r.d.blocks)))

\* Sum after a single Write of 64 bytes to a salted instance: one
\* compression by Write, one by Sum
C23_Witness ==
  /\ SingleWrite /\ ret.op = "Sum" /\ ctor.salted
  /\ Len(written) = 64 /\ Len(d.blocks) = 1 /\ Len(ret.fin) = 1

\* The bytes Sum appends to a message of l bits of which n bytes are
\* buffered: 0x80, zeros, the domain byte dom (merged into one byte when
\* n = 55) and the length
Padding(n, l, dom) ==
  IF n = 55 THEN <<128 + dom>> \o Bytes64(l)
  ELSE IF n < 55 THEN <<128>> \o Zeros(54 - n) \o <<dom>> \o Bytes64(l)
  ELSE <<128>> \o Zeros(63 - n) \o Zeros(55) \o <<dom>> \o Bytes64(l)

\* C24: no stale buffer bytes are hashed.  The blocks Write has compressed
\* since the last Reset, followed by the buffered bytes, are the bytes
\* written since then, in order; the blocks Sum compresses are the
\* buffered bytes followed by the padding, domain and length bytes that
\* the message length and the width fix.  Bytes the buffer holds beyond
\* the buffered count appear in no block.
C24_NoStaleBytes ==
  pc = "live" =>
    /\ rev = 0 =>
         /\ Flat(d.blocks) \o BufferOf = written
         /\ BitLength = U64(8 * Len(written))
    /\ ret.op = "Sum" =>
         Flat(ret.fin) = BufferOf \o Padding(BufferedOf, BitLength, DomainByte)

\* Sum after Write, Reset, Write, with bytes of the first Write still in
\* the buffer beyond the buffered count
C24_Witness ==
  /\ pc = "live" /\ rev = 0 /\ ret.op = "Sum"
  /\ calls = 2 /\ Len(chunks) = 1 /\ d.nx > 0
  /\ \E i \in (d.nx + 1)..55 : d.x[i] # 0

\* C26: before and after every call of _Block, sigma has 14 rows, each a
\* permutation of 0..15, and rows 10..13 are rows 0..3; cst has 16 words
\* and each IV 8 words.  No operation assigns to the tables: they keep
\* these values in every state.
C26_Tables ==
  pc \in {"call", "returned"} =>
    /\ Len(sigma) = 14
    /\ \A r \in 1..14 :
         Len(sigma[r]) = 16 /\ {sigma[r][i] : i \in 1..16} = 0..15
    /\ \A r \in 0..3 : At(sigma, 10 + r) = At(sigma, r)
    /\ Len(cst) = 16 /\ Len(iv256) = 8 /\ Len(iv224) = 8
    /\ \A i \in 1..16 : cst[i] \in Word32
    /\ \A i \in 1..8 : iv256[i] \in Word32 /\ iv224[i] \in Word32

\* _Block has run its 14 rounds on a block, reading every row of sigma
C26_Witness ==
  pc = "returned" /\ rev = 0 /\ ret.n = BlockSize /\ d.h # ret.before.h

(***************************************************************************)
(* Write and Sum of revision 0 running at the same time on one instance.   *)
(* Write is split at its stores to the fields of *d; Sum copies *d0 one    *)
(* field at a time and then works on its copy.  The code has no lock, so   *)
(* the steps of the two calls interleave freely.  A store to x or to h is  *)
(* one step: a copy that reads an array while it is being stored can see   *)
(* more mixtures than the model has, never fewer.                         *)
(***************************************************************************)

\* the message before the two calls, and the slice passed to Write
RacePrior == {<<>>, BLAKE}
RaceChunks == {FOX, Ramp(69)}

\* Variant of StoreChain that loses the store
StoreChain_Skip(dd, h) == dd

\* _Block: d.h[0], ..., d.h[7] = h0, ..., h7
StoreChain(dd, h) == [dd EXCEPT !.h = h]

\* _Block, one pass of the loop on the block q with the chain value h in
\* h0..h7: d.t += 512 and the new h0..h7
LoopPass(dd, h, q) ==
  Only({[d |-> [dd EXCEPT !.t = t1,
                          !.blocks = Append(@, Compressed(q, Lo32(t1), Hi32(t1), dd.nullt))],
         h |-> Compress(h, dd.s, Lo32(t1), Hi32(t1), dd.nullt, q)] :
        t1 \in {Add64(dd.t, 512)}})

\* One step of Write on the struct dd; w holds the position and the locals
\* p, n and h0..h7 of the running _Block
WriteStep(dd, w) ==
  CASE w.pc = "copy" ->
         [d |-> [dd EXCEPT !.x = Copy(dd.x, dd.nx, w.p)],
          w |-> [w EXCEPT !.pc = "count", !.n = Min(Len(w.p), BlockSize - dd.nx)]]
    [] w.pc = "count" ->
         IF dd.nx + w.n = BlockSize
           THEN [d |-> [dd EXCEPT !.nx = dd.nx + w.n],
                 w |-> [w EXCEPT !.pc = "flush", !.h = dd.h]]
           ELSE [d |-> [dd EXCEPT !.nx = dd.nx + w.n],
                 w |-> [w EXCEPT !.pc = "blocks", !.p = Drop(w.p, w.n), !.h = dd.h]]
    [] w.pc = "flush" ->
         Only({[d |-> r.d, w |-> [w EXCEPT !.pc = "flushed", !.h = r.h]] :
               r \in {LoopPass(dd, w.h, dd.x)}})
    [] w.pc = "flushed" ->
         [d |-> StoreChain(dd, w.h), w |-> [w EXCEPT !.pc = "clear"]]
    [] w.pc = "clear" ->
         [d |-> [dd EXCEPT !.nx = 0],
          w |-> [w EXCEPT !.pc = "blocks", !.p = Drop(w.p, w.n), !.h = dd.h]]
    [] w.pc = "blocks" ->
         IF Len(w.p) >= BlockSize
           THEN Only({[d |-> r.d, w |-> [w EXCEPT !.p = Drop(w.p, BlockSize), !.h = r.h]] :
                      r \in {LoopPass(dd, w.h, Take(w.p, BlockSize))}})
           ELSE [d |-> StoreChain(dd, w.h),
                 w |-> [w EXCEPT !.pc = IF Len(w.p) > 0 THEN "tail" ELSE "return"]]
    [] w.pc = "tail" ->
         [d |-> [dd EXCEPT !.x = Copy(dd.x, 0, w.p)], w |-> [w EXCEPT !.pc = "stored"]]
    [] w.pc = "stored" ->
         [d |-> [dd EXCEPT !.nx = CopyN(dd.x, 0, w.p)], w |-> [w EXCEPT !.pc = "return"]]

\* the fields of the struct that Write stores to
Stored == {"h", "t", "x", "nx"}

InitRace ==
  /\ rev = 0
  /\ pc = "live"
  /\ ctor = [hashSize |-> 256, salted |-> FALSE, salt |-> <<>>]
  /\ \E m \in RacePrior :
       /\ d = (Write(New, m)).d
       /\ written = m
       /\ chunks = IF Len(m) > 0 THEN <<Len(m)>> ELSE <<>>
  /\ resumed = FALSE
  /\ calls = Len(chunks)
  /\ ret = [op |-> "none"]
  /\ base = [pre |-> FALSE, t |-> Zero64]
  /\ writer = Idle /\ reader = Idle

\* a step of Write while the Sum call is running: the calls overlap
Overlapped ==
  IF reader.pc \in {"copying", "copied"} THEN [reader EXCEPT !.serial = FALSE] ELSE reader

\* d.Write(p) is called
StartWrite ==
  /\ writer.pc = "idle"
  /\ \E p \in RaceChunks :
       writer' = [pc |-> IF d.nx > 0 THEN "copy" ELSE "blocks",
                  p |-> p, n |-> 0, h |-> d.h, d0 |-> d, all |-> p]
  /\ reader' = Overlapped
  /\ UNCHANGED <<rev, pc, d, ctor, written, chunks, resumed, calls, ret, base>>

\* the running Write takes its next step
StepWrite ==
  /\ writer.pc \notin {"idle", "return", "returned"}
  /\ \E r \in {WriteStep(d, writer)} : d' = r.d /\ writer' = r.w
  /\ reader' = Overlapped
  /\ UNCHANGED <<rev, pc, ctor, written, chunks, resumed, calls, ret, base>>

\* the running Write returns
ReturnWrite ==
  /\ writer.pc = "return"
  /\ writer' = [writer EXCEPT !.pc = "returned"]
  /\ written' = written \o writer.all
  /\ chunks' = Append(chunks, Len(writer.all))
  /\ calls' = calls + 1
  /\ ret' = [op |-> "Write", nn |-> Len(writer.all), err |-> "nil"]
  /\ reader' = Overlapped
  /\ UNCHANGED <<rev, pc, d, ctor, resumed, base>>

\* d0.Sum(nil) is called; serial: no Write call has been running since
StartSum ==
  /\ reader.pc = "idle"
  /\ reader' = [pc |-> "copying", got |-> {}, snap |-> d,
                serial |-> writer.pc \in {"idle", "returned"},
                prefix |-> written, out |-> <<>>]
  /\ UNCHANGED <<rev, pc, d, ctor, written, chunks, resumed, calls, ret, base, writer>>

\* d := *d0, one field
CopyField ==
  /\ reader.pc = "copying"
  /\ \E f \in Stored \ reader.got :
       reader' = [reader EXCEPT !.snap[f] = d[f], !.got = @ \cup {f},
                                !.pc = IF reader.got \cup {f} = Stored
                                        THEN "copied" ELSE "copying"]
  /\ UNCHANGED <<rev, pc, d, ctor, written, chunks, resumed, calls, ret, base, writer>>

\* the rest of Sum, on the copy
ReturnSum ==
  /\ reader.pc = "copied"
  /\ \E r \in {Sum(reader.snap, <<>>)} :
       /\ reader' = [reader EXCEPT !.pc = "done", !.out = r.out]
       /\ ret' = [op |-> "Sum", in |-> <<>>, out |-> r.out]
  /\ UNCHANGED <<rev, pc, d, ctor, written, chunks, resumed, calls, base, writer>>

NextRace ==
  \/ StartWrite \/ StepWrite \/ ReturnWrite
  \/ StartSum \/ CopyField \/ ReturnSum

SpecRace == InitRace /\ [][NextRace]_vars

\* C25: when the Write and the Sum on an instance do not overlap, Sum
\* returns the digest of exactly the bytes written before it, whichever
\* call came first; a Write that ran alone, step by step, leaves the
\* struct that Write as a whole leaves.  (When the calls overlap Sum can
\* return a value that is the digest of no prefix of the bytes written:
\* the state C25_Witness.)
C25_SerializedSum ==
  /\ (reader.pc = "done" /\ reader.serial) => reader.out = OneShot(reader.prefix)
  /\ (writer.pc = "returned" /\ reader.pc = "idle") =>
       d = (Write(writer.d0, writer.all)).d

\* Sum copied the struct between Write's store of the count 64 and the
\* flush of the block, and returned a value that is the digest of no
\* prefix of the bytes passed to Write
C25_Witness ==
  /\ reader.pc = "done" /\ ~reader.serial /\ reader.snap.nx = BlockSize
  /\ \E m \in {reader.prefix \o writer.all} :
       reader.out \notin {OneShot(SubSeq(m, 1, k)) : k \in 0..Len(m)}

====
